---- MODULE Spec2Model ----
(***************************************************************************)
(* Model of the astro-htmx integration (src/index.ts).                     *)
(*                                                                         *)
(* A JavaScript string is modelled as a sequence of atoms whose            *)
(* concatenation is the text.  The characters of extension names and       *)
(* paths are one-character atoms; the fixed text of a template literal is  *)
(* cut into multi-character atoms (and the quote character into an atom of *)
(* its own), so that the generated script can be read back statement by    *)
(* statement.                                                              *)
(***************************************************************************)
EXTENDS Integers, Sequences, FiniteSets, TLC

VARIABLES
    options,     \* the argument the factory was called with
    extensions,  \* `extensions` captured by the closure (after defaulting)
    created,     \* the factory has returned the integration object
    hookRuns,    \* number of times astro:config:setup has been run
    injected,    \* log of the calls made to injectScript: <<[stage, content]>>
    name,        \* argument of a direct call of safeExtName
    ident,       \* its result
    phase        \* "idle" | "input" | "done"

vars == <<options, extensions, created, hookRuns, injected, name, ident, phase>>

(***************************************************************************)
(* Bounds                                                                  *)
(***************************************************************************)
MaxNameLen == 5
MaxExts == 2
MaxHookRuns == 2

(***************************************************************************)
(* Characters                                                              *)
(***************************************************************************)
Lower == <<"a","b","c","d","e","f","g","h","i","j","k","l","m",
           "n","o","p","q","r","s","t","u","v","w","x","y","z">>
Upper == <<"A","B","C","D","E","F","G","H","I","J","K","L","M",
           "N","O","P","Q","R","S","T","U","V","W","X","Y","Z">>
LowerSet == {Lower[i] : i \in 1..26}
UpperSet == {Upper[i] : i \in 1..26}
DigitSet == {"0","1","2","3","4","5","6","7","8","9"}
Hyphen == "-"
\* The one-character atom for LATIN SMALL LETTER SHARP S (U+00DF), a
\* lowercase letter whose uppercase form is the two characters "SS".
SharpS == "U+00DF"

\* The characters names are drawn from when safeExtName is called directly.
NameChars == {"a", "b", "c", "1", Hyphen, SharpS}

RECURSIVE SeqsUpTo(_, _)
SeqsUpTo(S, n) ==
    IF n = 0 THEN {<<>>}
    ELSE LET shorter == SeqsUpTo(S, n - 1)
         IN  shorter \cup {Append(s, c) : s \in {t \in shorter : Len(t) = n - 1}, c \in S}

Names == SeqsUpTo(NameChars, MaxNameLen)

(***************************************************************************)
(* String and array primitives used by the source                          *)
(***************************************************************************)
\* String.prototype.toUpperCase on one character: the result is a string,
\* and for some characters (here the sharp s) it is longer than one.
upperOfChar(c) ==
    IF c \in LowerSet THEN <<Upper[CHOOSE i \in 1..26 : Lower[i] = c]>>
    ELSE IF c = SharpS THEN <<"S", "S">>
    ELSE <<c>>

RECURSIVE toUpperCase(_)
toUpperCase(s) ==
    IF s = <<>> THEN <<>> ELSE upperOfChar(Head(s)) \o toUpperCase(Tail(s))

\* String.prototype.charAt: zero-based, "" when out of range.
charAt(s, i) == IF i >= 0 /\ i < Len(s) THEN <<s[i + 1]>> ELSE <<>>

\* String.prototype.substring(start): from start (clamped) to the end.
substring(s, start) ==
    LET from == IF start > Len(s) THEN Len(s) ELSE IF start < 0 THEN 0 ELSE start
    IN  SubSeq(s, from + 1, Len(s))

\* String.prototype.split(sep) for a one-character separator: every
\* occurrence separates, so "" gives [""] and "-" gives ["", ""].
splitFirstOnly(s, sep) ==
    IF \E i \in 1..Len(s) : s[i] = sep
      THEN LET i == CHOOSE k \in 1..Len(s) :
                        s[k] = sep /\ \A j \in 1..(k - 1) : s[j] # sep
           IN  <<SubSeq(s, 1, i - 1), SubSeq(s, i + 1, Len(s))>>
      ELSE <<s>>

RECURSIVE split(_, _)
split(s, sep) ==
    IF \E i \in 1..Len(s) : s[i] = sep
      THEN LET i == CHOOSE k \in 1..Len(s) :
                        s[k] = sep /\ \A j \in 1..(k - 1) : s[j] # sep
           IN  <<SubSeq(s, 1, i - 1)>> \o split(SubSeq(s, i + 1, Len(s)), sep)
      ELSE <<s>>

\* Array.prototype.join(sep): the elements with sep between neighbours.
RECURSIVE join(_, _)
join(parts, sep) ==
    IF parts = <<>> THEN <<>>
    ELSE IF Len(parts) = 1 THEN parts[1]
    ELSE parts[1] \o sep \o join(Tail(parts), sep)

(***************************************************************************)
(* safeExtName                                                             *)
(***************************************************************************)
\* The map callback: (part, index), index zero-based.
camelPartEvery(part, index) ==
    toUpperCase(charAt(part, 0)) \o substring(part, 1)

camelPart(part, index) ==
    IF index = 0 THEN part
    ELSE toUpperCase(charAt(part, 0)) \o substring(part, 1)

safeExtName(n) ==
    LET parts == split(n, Hyphen)
    IN  join([i \in 1..Len(parts) |-> camelPart(parts[i], i - 1)], <<>>)

(***************************************************************************)
(* Fixed text of the template literals                                     *)
(***************************************************************************)
Quote == "\""
KwImport == "import * as "
KwFrom == " from "
Semi == ";"
KwDefineExtension == "htmx.defineExtension("
ArgSep == ", "
CallEnd == ");"
Newline == "\n"
HtmxAlias == "htmx"
HtmxModule == "htmx.org"
Indent10 == "\n          "
ListenerOpen == "\n\n          document.addEventListener('astro:after-swap', () => {\n            "
ProcessCall == "htmx.process(document.body);"
Indent12 == "\n            "
ListenerClose == "\n          });"
BlankLine == "\n\n          "
GlobalAssign == "window.htmx = htmx;"

(***************************************************************************)
(* Inputs of the integration                                               *)
(***************************************************************************)
ResponseTargets ==
    <<"r","e","s","p","o","n","s","e","-","t","a","r","g","e","t","s">>
Foo == <<"f","o","o">>
LocalFoo == <<".","/","l","o","c","a","l","/","f","o","o">>

\* Extension names the configuration is drawn from: the documented ones, the
\* empty name, and two distinct names with the same camel-case form.
ExtNames ==
    { ResponseTargets, Foo, <<>>, <<"a","-","b">>, <<"a","-","-","b">> }

\* path is optional: hasPath = FALSE stands for an absent (undefined) path.
ExtPaths == { <<>>, LocalFoo }

Extensions ==
    [name : ExtNames, hasPath : {TRUE}, path : ExtPaths]
      \cup [name : ExtNames, hasPath : {FALSE}, path : {<<>>}]

ExtensionLists == UNION {[1..n -> Extensions] : n \in 0..MaxExts}

\* HtmxOptions as passed to the factory: no argument at all (given = FALSE),
\* an object without `extensions`, or an object with a list.
OptionValues ==
    { [given |-> FALSE, hasExtensions |-> FALSE, extensions |-> <<>>],
      [given |-> TRUE, hasExtensions |-> FALSE, extensions |-> <<>>] }
      \cup [given : {TRUE}, hasExtensions : {TRUE}, extensions : ExtensionLists]

(***************************************************************************)
(* The factory's parameter and destructuring defaults                      *)
(***************************************************************************)
\* (options = {}) and const { extensions = [] } = options
extensionsOf(opts) ==
    IF opts.given /\ opts.hasExtensions THEN opts.extensions ELSE <<>>

(***************************************************************************)
(* astro:config:setup                                                      *)
(***************************************************************************)
\* ext.path ?? ext.name : the name only when path is null or undefined.
importSpecifierOr(ext) ==
    IF ext.hasPath /\ ext.path # <<>> THEN ext.path ELSE ext.name

importSpecifier(ext) ==
    IF ext.hasPath THEN ext.path ELSE ext.name

\* `import * as ${safeExtName(ext.name)} from "${ext.path ?? ext.name}";`
importLine(ext) ==
    <<KwImport>> \o safeExtName(ext.name) \o <<KwFrom, Quote>>
      \o importSpecifier(ext) \o <<Quote, Semi>>

\* `htmx.defineExtension("${ext.name}", "${safeExtName(ext.name)}");`
registrationLine(ext) ==
    <<KwDefineExtension, Quote>> \o ext.name \o <<Quote, ArgSep, Quote>>
      \o safeExtName(ext.name) \o <<Quote, CallEnd>>

RECURSIVE dedupByName(_)
dedupByName(exts) ==
    IF exts = <<>> THEN <<>>
    ELSE LET rest == dedupByName(SubSeq(exts, 1, Len(exts) - 1))
             last == exts[Len(exts)]
         IN  IF \E i \in 1..Len(rest) : safeExtName(rest[i].name) = safeExtName(last.name)
               THEN rest ELSE Append(rest, last)

extensionImportsDedup(exts) ==
    LET d == dedupByName(exts)
    IN  join([i \in 1..Len(d) |-> importLine(d[i])], <<Newline>>)

extensionImports(exts) ==
    join([i \in 1..Len(exts) |-> importLine(exts[i])], <<Newline>>)

extensionRegistrationsReversed(exts) ==
    join([i \in 1..Len(exts) |-> registrationLine(exts[Len(exts) + 1 - i])],
         <<Newline>>)

extensionRegistrations(exts) ==
    join([i \in 1..Len(exts) |-> registrationLine(exts[i])], <<Newline>>)

\* The template literal handed to injectScript.
scriptTemplateNoGlobal(imports, registrations) ==
    <<KwImport, HtmxAlias, KwFrom, Quote, HtmxModule, Quote, Semi, Indent10>>
      \o imports
      \o <<ListenerOpen, ProcessCall, Indent12>>
      \o registrations
      \o <<ListenerClose, BlankLine>>

scriptTemplateRegsOutside(imports, registrations) ==
    <<KwImport, HtmxAlias, KwFrom, Quote, HtmxModule, Quote, Semi, Indent10>>
      \o imports
      \o <<ListenerOpen, ProcessCall, Indent12>>
      \o <<ListenerClose, BlankLine>>
      \o registrations
      \o <<BlankLine, GlobalAssign>>

scriptTemplate(imports, registrations) ==
    <<KwImport, HtmxAlias, KwFrom, Quote, HtmxModule, Quote, Semi, Indent10>>
      \o imports
      \o <<ListenerOpen, ProcessCall, Indent12>>
      \o registrations
      \o <<ListenerClose, BlankLine, GlobalAssign>>

bootstrapScript(exts) ==
    scriptTemplate(extensionImports(exts), extensionRegistrations(exts))

(***************************************************************************)
(* State machine of one integration instance                               *)
(***************************************************************************)
Init ==
    /\ options = [given |-> FALSE, hasExtensions |-> FALSE, extensions |-> <<>>]
    /\ extensions = <<>>
    /\ created = FALSE
    /\ hookRuns = 0
    /\ injected = <<>>
    /\ name = <<>>
    /\ ident = <<>>
    /\ phase = "idle"

\* The default export: captures `extensions` and returns the integration.
Integration(opts) ==
    /\ ~created
    /\ options' = opts
    /\ extensions' = extensionsOf(opts)
    /\ created' = TRUE
    /\ UNCHANGED <<hookRuns, injected, name, ident, phase>>

\* hooks["astro:config:setup"]({ injectScript })
ConfigSetupHeadInline ==
    /\ created
    /\ hookRuns < MaxHookRuns
    /\ hookRuns' = hookRuns + 1
    /\ injected' = Append(injected,
                          [stage |-> "head-inline", content |-> bootstrapScript(extensions)])
    /\ UNCHANGED <<options, extensions, created, name, ident, phase>>

ConfigSetup ==
    /\ created
    /\ hookRuns < MaxHookRuns
    /\ hookRuns' = hookRuns + 1
    /\ injected' = Append(injected,
                          [stage |-> "page", content |-> bootstrapScript(extensions)])
    /\ UNCHANGED <<options, extensions, created, name, ident, phase>>

Next ==
    \/ \E opts \in OptionValues : Integration(opts)
    \/ ConfigSetup

Spec == Init /\ [][Next]_vars

(***************************************************************************)
(* safeExtName called on its own, on every name within the bound           *)
(***************************************************************************)
InitSafe ==
    /\ options = [given |-> FALSE, hasExtensions |-> FALSE, extensions |-> <<>>]
    /\ extensions = <<>>
    /\ created = FALSE
    /\ hookRuns = 0
    /\ injected = <<>>
    /\ name \in Names
    /\ ident = <<>>
    /\ phase = "input"

CallSafeExtName ==
    /\ phase = "input"
    /\ ident' = safeExtName(name)
    /\ phase' = "done"
    /\ UNCHANGED <<options, extensions, created, hookRuns, injected, name>>

NextSafe == CallSafeExtName

SpecSafe == InitSafe /\ [][NextSafe]_vars

(***************************************************************************)
(* Reading a generated script back                                         *)
(***************************************************************************)
\* The least position >= i of s holding tok; Len(s) + 1 when there is none.
IndexFrom(s, i, tok) ==
    IF \E j \in i..Len(s) : s[j] = tok
      THEN CHOOSE j \in i..Len(s) : s[j] = tok /\ \A m \in i..(j - 1) : s[m] # tok
      ELSE Len(s) + 1

\* The positions of s holding tok, in increasing order.
PositionsOf(s, tok) ==
    LET P == {i \in 1..Len(s) : s[i] = tok}
    IN  [k \in 1..Cardinality(P) |->
            CHOOSE i \in P : Cardinality({j \in P : j < i}) = k - 1]

\* The import statement starting at position p:
\*   import * as <binding> from "<specifier>";
ReadImport(s, p) ==
    LET f == IndexFrom(s, p + 1, KwFrom)
        q == IndexFrom(s, f + 2, Quote)
    IN  [ pos |-> p,
          binding |-> SubSeq(s, p + 1, f - 1),
          specifier |-> SubSeq(s, f + 2, q - 1),
          wellFormed |-> /\ q + 1 <= Len(s)
                         /\ s[f + 1] = Quote
                         /\ s[q + 1] = Semi ]

\* The registration call starting at position p:
\*   htmx.defineExtension("<name>", <arg>);   the second argument being
\*   either an identifier or a string literal (quoted).
ReadCall(s, p) ==
    LET q1 == IndexFrom(s, p + 2, Quote)
        a == q1 + 2
        isQuoted == a <= Len(s) /\ s[a] = Quote
        e == IF isQuoted THEN IndexFrom(s, a + 1, Quote) ELSE IndexFrom(s, a, CallEnd)
    IN  [ pos |-> p,
          name |-> SubSeq(s, p + 2, q1 - 1),
          arg |-> IF isQuoted THEN SubSeq(s, a + 1, e - 1) ELSE SubSeq(s, a, e - 1),
          quoted |-> isQuoted,
          wellFormed |-> /\ e <= Len(s)
                         /\ s[p + 1] = Quote
                         /\ s[q1 + 1] = ArgSep ]

ImportsIn(s) ==
    LET P == PositionsOf(s, KwImport)
    IN  [k \in 1..Len(P) |-> ReadImport(s, P[k])]

RegistrationsIn(s) ==
    LET P == PositionsOf(s, KwDefineExtension)
    IN  [k \in 1..Len(P) |-> ReadCall(s, P[k])]

\* The camel-case join stated position by position: a hyphen is dropped, a
\* character right after a hyphen is uppercased, any other is kept.
CamelJoin(n) ==
    LET piece(i) ==
            IF n[i] = Hyphen THEN <<>>
            ELSE IF i > 1 /\ n[i - 1] = Hyphen THEN upperOfChar(n[i])
            ELSE <<n[i]>>
    IN  join([i \in 1..Len(n) |-> piece(i)], <<>>)

HyphenCount(n) == Cardinality({i \in 1..Len(n) : n[i] = Hyphen})
NoHyphen(n) == \A i \in 1..Len(n) : n[i] # Hyphen

\* Non-empty, letters and digits only, not starting with a digit.
IsIdentifier(t) ==
    /\ t # <<>>
    /\ t[1] \notin DigitSet
    /\ \A i \in 1..Len(t) : t[i] \in LowerSet \cup UpperSet \cup DigitSet

\* The first character of every segment after the first uppercases to one
\* character (true of every name of ASCII letters, digits and hyphens).
SingleCharUppercase(n) ==
    \A i \in 2..Len(n) :
        (n[i - 1] = Hyphen /\ n[i] # Hyphen) => Len(upperOfChar(n[i])) = 1

ABC == <<"a", "-", "b", "-", "c">>

(***************************************************************************)
(* Properties of safeExtName (checked under SpecSafe)                      *)
(***************************************************************************)
\* C2: for every name of lowercase letters, digits and hyphens, safeExtName
\* returns a valid identifier (non-empty, not starting with a digit, letters
\* and digits only).
C2_AlwaysValidIdentifier ==
    (phase = "done"
       /\ \A i \in 1..Len(name) : name[i] \in LowerSet \cup DigitSet \cup {Hyphen})
    => IsIdentifier(ident)

\* C3: safeExtName(name) is the camel-case join of the hyphen-separated
\* segments: the first kept verbatim, the first character of every later one
\* uppercased; a hyphenless name is returned unchanged and "a-b-c" gives "aBC".
C3_CamelCaseJoin ==
    phase = "done" =>
        /\ ident = CamelJoin(name)
        /\ NoHyphen(name) => ident = name
        /\ name = ABC => ident = <<"a", "B", "C">>

C3_Witness ==
    /\ phase = "done"
    /\ name = ABC
    /\ ident = <<"a", "B", "C">>

Scripts == {injected[k].content : k \in 1..Len(injected)}

ExtIndices == 1..Len(extensions)

\* C1: for every extension the script holds a registration call whose first
\* argument is the extension's name as a string literal and whose second
\* argument is the identifier bound by that extension's import statement,
\* written as an identifier reference and not as a quoted string; for
\* "response-targets" the call is ("response-targets", responseTargets).
C1_RegistersImportedBinding ==
    \A s \in Scripts : \A i \in ExtIndices :
        LET regs == RegistrationsIn(s)
            imps == ImportsIn(s)
        IN  /\ i <= Len(regs) /\ i + 1 <= Len(imps)
            /\ regs[i].wellFormed
            /\ regs[i].name = extensions[i].name
            /\ regs[i].arg = imps[i + 1].binding
            /\ ~regs[i].quoted
            /\ extensions[i].name = ResponseTargets =>
                   regs[i].arg = <<"r","e","s","p","o","n","s","e",
                                   "T","a","r","g","e","t","s">>

\* C4: the module specifier of an extension's import statement is its path
\* whenever a path is given (the empty string included) and its name only
\* when the path is absent; an extension given a path other than its name
\* is never imported from its name.
C4_SpecifierIsPathElseName ==
    \A s \in Scripts : \A i \in ExtIndices :
        LET imps == ImportsIn(s)
            ext == extensions[i]
        IN  /\ i + 1 <= Len(imps)
            /\ imps[i + 1].wellFormed
            /\ ext.hasPath => imps[i + 1].specifier = ext.path
            /\ ~ext.hasPath => imps[i + 1].specifier = ext.name
            /\ (ext.hasPath /\ ext.path # ext.name) => imps[i + 1].specifier # ext.name

C4_Witness ==
    \E s \in Scripts : \E i, j \in ExtIndices :
        /\ extensions[i] = [name |-> Foo, hasPath |-> TRUE, path |-> <<>>]
        /\ ImportsIn(s)[i + 1].specifier = <<>>
        /\ extensions[j] = [name |-> Foo, hasPath |-> TRUE, path |-> LocalFoo]
        /\ ImportsIn(s)[j + 1].specifier = LocalFoo

\* C5: when the extensions list is empty or the option is omitted, the hook
\* injects a script holding exactly one import statement (the base library),
\* the document-processing call inside the listener, the global-exposure
\* assignment, and no registration call.
C5_EmptyConfiguration ==
    (extensions = <<>> \/ ~options.given \/ ~options.hasExtensions) =>
        /\ Len(injected) = hookRuns
        /\ \A s \in Scripts :
            /\ Len(ImportsIn(s)) = 1
            /\ ImportsIn(s)[1].binding = <<HtmxAlias>>
            /\ ImportsIn(s)[1].specifier = <<HtmxModule>>
            /\ ImportsIn(s)[1].wellFormed
            /\ RegistrationsIn(s) = <<>>
            /\ Len(PositionsOf(s, ProcessCall)) = 1
            /\ Len(PositionsOf(s, ListenerOpen)) = 1
            /\ Len(PositionsOf(s, ListenerClose)) = 1
            /\ PositionsOf(s, ListenerOpen)[1] < PositionsOf(s, ProcessCall)[1]
            /\ PositionsOf(s, ProcessCall)[1] < PositionsOf(s, ListenerClose)[1]
            /\ Len(PositionsOf(s, GlobalAssign)) = 1

C5_Witness ==
    /\ options.given
    /\ ~options.hasExtensions
    /\ hookRuns = 1
    /\ \E s \in Scripts : Len(ImportsIn(s)) = 1 /\ RegistrationsIn(s) = <<>>

\* C6: for any two positions i < j of the extensions list, the import
\* statement of extension i precedes that of extension j in the script, and
\* the registration call of extension i precedes that of extension j.
C6_OrderPreserved ==
    \A s \in Scripts : \A i, j \in ExtIndices :
        i < j =>
            LET imps == ImportsIn(s)
                regs == RegistrationsIn(s)
            IN  /\ j + 1 <= Len(imps) /\ j <= Len(regs)
                /\ imps[i + 1].binding = CamelJoin(extensions[i].name)
                /\ imps[j + 1].binding = CamelJoin(extensions[j].name)
                /\ imps[i + 1].specifier \in {extensions[i].name, extensions[i].path}
                /\ imps[j + 1].specifier \in {extensions[j].name, extensions[j].path}
                /\ imps[i + 1].pos < imps[j + 1].pos
                /\ regs[i].name = extensions[i].name
                /\ regs[j].name = extensions[j].name
                /\ regs[i].pos < regs[j].pos

C6_Witness ==
    \E s \in Scripts :
        /\ Len(extensions) = 2
        /\ extensions[1].name = ResponseTargets
        /\ extensions[2].name = Foo
        /\ RegistrationsIn(s)[1].name = ResponseTargets
        /\ RegistrationsIn(s)[2].name = Foo
        /\ ImportsIn(s)[2].specifier = ResponseTargets
        /\ ImportsIn(s)[3].specifier = Foo

\* C7: the script has a fixed section order: the base-library import first,
\* then every extension import, then the listener, whose body holds the
\* document-processing call before any registration call and holds every
\* registration call, and last, outside the listener, the global-exposure
\* assignment.
C7_SectionOrder ==
    \A s \in Scripts :
        LET imps == ImportsIn(s)
            regs == RegistrationsIn(s)
            open == PositionsOf(s, ListenerOpen)
            close == PositionsOf(s, ListenerClose)
            process == PositionsOf(s, ProcessCall)
            global == PositionsOf(s, GlobalAssign)
        IN  /\ Len(open) = 1 /\ Len(close) = 1
            /\ Len(process) = 1 /\ Len(global) = 1
            /\ Len(imps) = Len(extensions) + 1
            /\ imps[1].pos = 1
            /\ imps[1].binding = <<HtmxAlias>>
            /\ imps[1].specifier = <<HtmxModule>>
            /\ \A k \in 1..Len(imps) : imps[k].pos < open[1]
            /\ open[1] < process[1]
            /\ process[1] < close[1]
            /\ Len(regs) = Len(extensions)
            /\ \A k \in 1..Len(regs) :
                   process[1] < regs[k].pos /\ regs[k].pos < close[1]
            /\ close[1] < global[1]
            /\ global[1] = Len(s)

C7_Witness ==
    \E s \in Scripts :
        /\ Len(extensions) = 2
        /\ Len(RegistrationsIn(s)) = 2
        /\ RegistrationsIn(s)[2].pos < PositionsOf(s, ListenerClose)[1]
        /\ PositionsOf(s, ProcessCall)[1] < RegistrationsIn(s)[1].pos

\* C8: every run of the setup hook calls injectScript exactly once, with the
\* stage "page" and the generated script; creating the integration without
\* running the hook injects nothing, and nothing else calls injectScript.
C8_OneInjectionPerHookRun ==
    /\ Len(injected) = hookRuns
    /\ (~created \/ hookRuns = 0) => injected = <<>>
    /\ \A k \in 1..Len(injected) :
        /\ injected[k].stage = "page"
        /\ Len(ImportsIn(injected[k].content)) = Len(extensions) + 1
        /\ injected[k].content = injected[1].content

C8_Witness ==
    /\ created
    /\ hookRuns = 2
    /\ Len(injected) = 2
    /\ injected[2].stage = "page"
    /\ extensions # <<>>

\* C9: no validation or de-duplication: for a list of n extensions, with
\* empty names, repeated names or names with the same camel-case form, the
\* script holds exactly n extension imports and n registration calls, one
\* per entry, so entries with the same camel-case form bind the same
\* identifier twice.
C9_NoDeduplication ==
    /\ Len(injected) = hookRuns
    /\ \A s \in Scripts :
        LET imps == ImportsIn(s)
            regs == RegistrationsIn(s)
        IN  /\ Len(imps) = Len(extensions) + 1
            /\ Len(regs) = Len(extensions)
            /\ \A i \in ExtIndices :
                /\ imps[i + 1].binding = CamelJoin(extensions[i].name)
                /\ regs[i].name = extensions[i].name
            /\ \A i, j \in ExtIndices :
                CamelJoin(extensions[i].name) = CamelJoin(extensions[j].name)
                  => imps[i + 1].binding = imps[j + 1].binding

C9_Witness ==
    \E s \in Scripts :
        /\ Len(extensions) = 2
        /\ extensions[1].name = <<"a", "-", "b">>
        /\ extensions[2].name = <<"a", "-", "-", "b">>
        /\ ImportsIn(s)[2].binding = <<"a", "B">>
        /\ ImportsIn(s)[3].binding = <<"a", "B">>
        /\ Len(RegistrationsIn(s)) = 2

====
